---- MODULE Spec2Model ----
(***************************************************************************)
(* Model of kubernetes_runbooks_server.py: the runbook scraper (index      *)
(* resolver and content extractor), the process-wide runbooks_cache and    *)
(* the request handlers that read and fill it.                             *)
(*                                                                         *)
(* Python str values that the code inspects character by character (link   *)
(* texts, hrefs, slugs, titles, queries) are sequences of one-character    *)
(* strings.  Page bodies, which the code only measures and slices, are     *)
(* records [id, len, marker]: the first len characters of the text named   *)
(* id, followed by marker.                                                 *)
(*                                                                         *)
(* Specifications:                                                         *)
(*   Spec        requests one at a time, each handler run to its end;      *)
(*   SpecScraper one call of a scraper method on one link or one page;     *)
(*   SpecInTurn  requests one at a time, each handler step by step from    *)
(*               await to await, with fair resumption;                     *)
(*   SpecAsync   handlers in flight together, interleaving at the awaits,  *)
(*               the dict's values being references to dict objects.       *)
(***************************************************************************)
EXTENDS Integers, Sequences, FiniteSets, TLC

VARIABLES runbooks_cache, last, prev, argument, returned, tasks, heap

vars == <<runbooks_cache, last, prev, argument, returned, tasks, heap>>

\* Longest index page (number of anchors) the model enumerates.
MaxLinks == 3

\* Most content containers a runbook page of the scraper's own runs has.
MaxContainers == 2

\* Most handlers in flight at a time, where handlers interleave.
MaxInFlight == 2

(***************************************************************************)
(* str helpers                                                             *)
(***************************************************************************)
\* str.lower() on one character
LowerChar(c) ==
    CASE c = "P" -> "p"
      [] c = "O" -> "o"
      [] c = "D" -> "d"
      [] c = "S" -> "s"
      [] c = "N" -> "n"
      [] c = "E" -> "e"
      [] c = "U" -> "u"
      [] c = "R" -> "r"
      [] OTHER -> c

\* str.lower()
Lower(s) == [i \in 1..Len(s) |-> LowerChar(s[i])]

\* Python's  sub in s
StrIn(sub, s) ==
    \E i \in 0..(Len(s) - Len(sub)) : SubSeq(s, i + 1, i + Len(sub)) = sub

\* s.startswith(p)
StartsWith(s, p) == Len(p) <= Len(s) /\ SubSeq(s, 1, Len(p)) = p

\* s.endswith(p)
EndsWith(s, p) == Len(p) <= Len(s) /\ SubSeq(s, Len(s) - Len(p) + 1, Len(s)) = p

\* s.split('/'): the pieces between separators, empty pieces kept
RECURSIVE SplitFrom(_, _, _)
SplitFrom(s, i, piece) ==
    IF i > Len(s) THEN <<piece>>
    ELSE IF s[i] = "/" THEN <<piece>> \o SplitFrom(s, i + 1, <<>>)
    ELSE SplitFrom(s, i + 1, Append(piece, s[i]))

Split(s) == SplitFrom(s, 1, <<>>)

\* s.lstrip('/')
RECURSIVE LStrip(_)
LStrip(s) == IF s # <<>> /\ Head(s) = "/" THEN LStrip(Tail(s)) ELSE s

(***************************************************************************)
(* Literals of the program                                                 *)
(***************************************************************************)
SITE_ORIGIN == "https://containersolutions.github.io"

\* '/posts/kubernetes/'
POSTS_PATH ==
    <<"/","p","o","s","t","s","/","k","u","b","e","r","n","e","t","e","s","/">>

UNTITLED ==
    <<"U","n","t","i","t","l","e","d"," ","R","u","n","b","o","o","k">>

\* the one-character string U+2026 (horizontal ellipsis)
ELLIPSIS == <<"U+2026">>

\* len(content) > 100 / len(content) < 100
SubstantialLen == 100

\* content[:200] and len(content) > 200
DescriptionLen == 200

(***************************************************************************)
(* The site, as the fetches can find it                                    *)
(***************************************************************************)
s_pod == <<"p","o","d">>
s_node == <<"n","o","d","e">>
s_nope == <<"n","o","p","e">>

\* anchors of the index page: href and stripped visible text
A_pod_dir  == [href |-> POSTS_PATH \o s_pod \o <<"/">>, text |-> <<"P","o","d","s">>]
A_pod_file == [href |-> POSTS_PATH \o s_pod, text |-> <<"P","O","D"," ","u","p">>]
A_node     == [href |-> POSTS_PATH \o s_node \o <<"/">>, text |-> <<"N","o","d","e">>]
A_next     == [href |-> POSTS_PATH \o <<"p","a","g","e","/","2","/">>, text |-> <<"N","e","x","t">>]
A_base     == [href |-> POSTS_PATH, text |-> <<"H","o","m","e">>]

Anchors == {A_pod_dir, A_pod_file, A_node, A_next, A_base}

RECURSIVE SeqsUpTo(_, _)
SeqsUpTo(S, n) ==
    IF n = 0 THEN {<<>>}
    ELSE LET shorter == SeqsUpTo(S, n - 1)
         IN  shorter \cup {Append(q, x) : q \in {r \in shorter : Len(r) = n - 1}, x \in S}

\* client.get raised (network, DNS, timeout)
FETCH_ERROR == [error |-> "transport"]

\* response.raise_for_status() raised (non-2xx)
STATUS_ERROR == [error |-> "status"]

\* parsing or scanning the page raised
PARSE_ERROR == [error |-> "parse"]

\* the exceptions the try body of a scraper method can end with
FetchErrors == {FETCH_ERROR, STATUS_ERROR, PARSE_ERROR}

\* what client.get(BASE_URL) can give: an exception, or a page's anchors
IndexResponses ==
    FetchErrors \cup {[anchors |-> q] : q \in SeqsUpTo(Anchors, MaxLinks)}

Text(id, n) == [id |-> id, len |-> n, marker |-> ""]
EMPTY_TEXT == Text("", 0)
TextLen(t) == t.len + (IF t.marker = "" THEN 0 ELSE 3)

\* soup.find('body') is None
NO_BODY == [absent |-> TRUE]

\* a fetched runbook page: the text of the first title selector that matches
\* (<<>> when none does), the normalized texts of the content selectors that
\* match, in selector order, and the text of <body> without script/style
Page(title, containers, body) ==
    [title |-> title, containers |-> containers, body |-> body]

PAGE_two == Page(<<"P","o","d"," ","X">>, <<Text("wrapper", 50), Text("article", 150)>>, Text("body", 150))
PAGE_long == Page(<<>>, <<Text("main", 250)>>, Text("body", 250))
PAGE_thin == Page(<<"N","o","d","e">>, <<Text("wrapper", 50)>>, Text("body", 60))
PAGE_bare == Page(<<>>, <<>>, NO_BODY)

Pages == {PAGE_two, PAGE_long, PAGE_thin, PAGE_bare}

\* what client.get(url) can give for a runbook page
ContentResponses == FetchErrors \cup Pages

(***************************************************************************)
(* RunbookScraper.fetch_runbook_index                                      *)
(***************************************************************************)
\* a link filter without the check of the text's length
KeepLinkOfAnyLength(a) ==
    /\ a.href # <<>> /\ StrIn(POSTS_PATH, a.href) /\ a.href # POSTS_PATH
    /\ a.text # <<>>
    /\ ~StartsWith(a.text, <<"P","r","e","v">>)
    /\ ~StartsWith(a.text, <<"N","e","x","t">>)
    /\ ~StartsWith(a.text, <<"1">>)
    /\ ~StartsWith(a.text, <<"2">>)
    /\ a.text # ELLIPSIS

\* the link filter
KeepLink(a) ==
    /\ a.href # <<>> /\ StrIn(POSTS_PATH, a.href) /\ a.href # POSTS_PATH
    /\ a.text # <<>>
    /\ ~StartsWith(a.text, <<"P","r","e","v">>)
    /\ ~StartsWith(a.text, <<"N","e","x","t">>)
    /\ ~StartsWith(a.text, <<"1">>)
    /\ ~StartsWith(a.text, <<"2">>)
    /\ a.text # ELLIPSIS
    /\ Len(a.text) > 3

\* urljoin(origin, href) for a root-relative href
UrlJoin(origin, href) == [origin |-> origin, path |-> href]

\* href.split('/')[-2] if href.endswith('/') else href.split('/')[-1]
SlugOf(href) ==
    LET parts == Split(href)
    IN  IF EndsWith(href, <<"/">>) THEN parts[Len(parts) - 1] ELSE parts[Len(parts)]

MakeRunbook(a) ==
    [title |-> a.text, url |-> UrlJoin(SITE_ORIGIN, a.href), slug |-> SlugOf(a.href)]

\* the scan over soup.find_all('a', href=True)
RECURSIVE ScanLinks(_)
ScanLinks(anchors) ==
    IF anchors = <<>> THEN <<>>
    ELSE (IF KeepLink(Head(anchors)) THEN <<MakeRunbook(Head(anchors))>> ELSE <<>>)
         \o ScanLinks(Tail(anchors))

\* "Remove duplicates based on slug"
RECURSIVE DedupFrom(_, _, _)
DedupFrom(runbooks, seen_slugs, unique_runbooks) ==
    IF runbooks = <<>> THEN unique_runbooks
    ELSE LET runbook == Head(runbooks)
         IN  IF runbook.slug \notin seen_slugs
             THEN DedupFrom(Tail(runbooks), seen_slugs \cup {runbook.slug},
                            Append(unique_runbooks, runbook))
             ELSE DedupFrom(Tail(runbooks), seen_slugs, unique_runbooks)

\* a dedup in which the last link of a slug replaces the earlier one
RECURSIVE DedupLastFrom(_, _)
DedupLastFrom(runbooks, unique_runbooks) ==
    IF runbooks = <<>> THEN unique_runbooks
    ELSE LET runbook == Head(runbooks)
             at == {i \in 1..Len(unique_runbooks) : unique_runbooks[i].slug = runbook.slug}
         IN  DedupLastFrom(Tail(runbooks),
                 IF at = {} THEN Append(unique_runbooks, runbook)
                 ELSE [i \in 1..Len(unique_runbooks) |->
                          IF i \in at THEN runbook ELSE unique_runbooks[i]])

UniqueRunbooksLastWins(runbooks) == DedupLastFrom(runbooks, <<>>)

UniqueRunbooks(runbooks) == DedupFrom(runbooks, {}, <<>>)

\* an except clause that lets everything but transport errors through
CatchesTransportOnly(error) == error = FETCH_ERROR

\* except Exception as e  (fetch_runbook_index): the exceptions it catches
IndexCatches(error) == TRUE

\* the value fetch_runbook_index returns for a response
FetchRunbookIndex(response) ==
    IF response \in FetchErrors THEN <<>>
    ELSE UniqueRunbooks(ScanLinks(response.anchors))

(***************************************************************************)
(* RunbookScraper.fetch_runbook_content                                    *)
(***************************************************************************)
\* a scan that takes the first container found, whatever its length
ScanFirstOnly(containers, content) ==
    IF containers = <<>> THEN content ELSE Head(containers)

\* the loop over content_selectors: content after the loop
RECURSIVE ScanContainers(_, _)
ScanContainers(containers, content) ==
    IF containers = <<>> THEN content
    ELSE IF TextLen(Head(containers)) > SubstantialLen THEN Head(containers)
    ELSE ScanContainers(Tail(containers), Head(containers))

\* the number of containers the loop over content_selectors gets the text of
RECURSIVE Scanned(_)
Scanned(containers) ==
    IF containers = <<>> THEN 0
    ELSE IF TextLen(Head(containers)) > SubstantialLen THEN 1
    ELSE 1 + Scanned(Tail(containers))

\* if len(content) < 100: body = soup.find('body'); if body:
UsesFallback(page) ==
    /\ TextLen(ScanContainers(page.containers, EMPTY_TEXT)) < SubstantialLen
    /\ page.body # NO_BODY

\* "If still no content, try to get all text from body"
ExtractContent(page) ==
    IF UsesFallback(page)
    THEN page.body
    ELSE ScanContainers(page.containers, EMPTY_TEXT)

\* a description that is cut from 200 characters on
DescribeFrom200(content) ==
    IF TextLen(content) >= DescriptionLen
    THEN [id |-> content.id, len |-> DescriptionLen, marker |-> "..."]
    ELSE content

\* content[:200] + "..." if len(content) > 200 else content
Describe(content) ==
    IF TextLen(content) > DescriptionLen
    THEN [id |-> content.id, len |-> DescriptionLen, marker |-> "..."]
    ELSE content

NONE == [none |-> TRUE]

\* a title that is returned as extracted, empty or not
TitleAsExtracted(title) == title

\* title or "Untitled Runbook"
TitleOrDefault(title) == IF title # <<>> THEN title ELSE UNTITLED

\* except Exception as e  (fetch_runbook_content): the exceptions it catches
ContentCatches(error) == TRUE

\* the value fetch_runbook_content(url) returns for a response
FetchRunbookContent(url, response) ==
    IF response \in FetchErrors THEN NONE
    ELSE LET content == ExtractContent(response)
         IN  [title |-> TitleOrDefault(response.title),
              content |-> content,
              url |-> url,
              description |-> Describe(content)]

(***************************************************************************)
(* runbooks_cache: a dict, i.e. keys in insertion order, each with a value *)
(***************************************************************************)
Keys(cache) == {cache[i].key : i \in 1..Len(cache)}

\* key in runbooks_cache
HasKey(cache, key) == key \in Keys(cache)

\* runbooks_cache[key]
Get(cache, key) == cache[CHOOSE i \in 1..Len(cache) : cache[i].key = key].value

\* runbooks_cache[key] = value: a new key goes last, a present key keeps its place
DictSet(cache, key, value) ==
    IF HasKey(cache, key)
    THEN [i \in 1..Len(cache) |->
             IF cache[i].key = key THEN [key |-> key, value |-> value] ELSE cache[i]]
    ELSE Append(cache, [key |-> key, value |-> value])

\* for runbook in runbooks: runbooks_cache[runbook['slug']] = runbook
RECURSIVE InsertAll(_, _)
InsertAll(cache, runbooks) ==
    IF runbooks = <<>> THEN cache
    ELSE InsertAll(DictSet(cache, Head(runbooks).slug, Head(runbooks)), Tail(runbooks))

\* runbook.update(content_data)
DictUpdate(runbook, content_data) == content_data @@ runbook

\* a content check that never finds content
LacksContentAlways(runbook) == TRUE

\* 'content' not in runbook
LacksContent(runbook) == "content" \notin DOMAIN runbook

\* a load rule that reloads the index on every request
CacheIsEmptyAlways(cache) == TRUE

\* if not runbooks_cache
CacheIsEmpty(cache) == cache = <<>>

\* the read handler with the lazy-load rule of the list handlers
MissingOnlyWhenEmpty(cache, slug) == cache = <<>>

\* slug not in runbooks_cache, before the index fetch of a read
MissingBeforeIndex(cache, slug) == ~HasKey(cache, slug)

\* slug not in runbooks_cache, after it
MissingAfterIndex(cache, slug) == ~HasKey(cache, slug)

(***************************************************************************)
(* Requests and network responses                                          *)
(***************************************************************************)
Uri(scheme, host, path) == [scheme |-> scheme, host |-> host, path |-> path]

\* AnyUrl(f"runbook://kubernetes/{topic}")
TopicUri(topic) == Uri("runbook", "kubernetes", <<"/">> \o topic)

Slugs == {s_pod, s_node, s_nope}

Uris ==
    {TopicUri(s) : s \in Slugs \cup {<<>>}}
    \cup {Uri("http", "kubernetes", <<"/">> \o s_pod),
          Uri("runbook", "linux", <<"/">> \o s_pod),
          Uri("http", "linux", <<"/">> \o s_node)}

Topics == Slugs \cup {<<>>}

Queries == {<<"P","O","D">>, <<"u","p">>, <<"n","o">>, <<>>}

\* arguments is None or {}
NO_ARGUMENTS == [none |-> TRUE]

\* the response of a fetch the handler did not make
NOT_REQUESTED == [unused |-> TRUE]

\* what one handler run did: the cache it leaves, how it ended, and the
\* calls it made on the scraper
\* (resolved: what fetch_runbook_index returned; extracted: what
\* fetch_runbook_content returned)
Done(cache, outcome, raised, result, index_fetches, resolved, content_fetches, extracted) ==
    [cache |-> cache, outcome |-> outcome, raised |-> raised, result |-> result,
     index_fetches |-> index_fetches, resolved |-> resolved,
     content_fetches |-> content_fetches, extracted |-> extracted]

\* what  await scraper.fetch_runbook_index()  can return
IndexResults == {FetchRunbookIndex(response) : response \in IndexResponses}

\* the exceptions that can leave fetch_runbook_index / fetch_runbook_content
IndexEscapes == {e \in FetchErrors : ~IndexCatches(e)}
ContentEscapes == {e \in FetchErrors : ~ContentCatches(e)}

\* a call of fetch_runbook_index as its caller sees it: a returned value, or
\* an exception
Returned(value) == [raised |-> FALSE, value |-> value, exception |-> NOT_REQUESTED]
Escaped(error) == [raised |-> TRUE, value |-> <<>>, exception |-> error]

IndexCalls == {Returned(v) : v \in IndexResults} \cup {Escaped(e) : e \in IndexEscapes}

\* the index load shared by the handlers, given the runbooks the fetch returned:
\* for runbook in runbooks: runbooks_cache[runbook['slug']] = runbook
LoadIndex(cache, runbooks) ==
    [cache |-> InsertAll(cache, runbooks), runbooks |-> runbooks]

\* if not runbooks_cache: <load the index>
EnsureLoaded(cache, runbooks) ==
    IF CacheIsEmpty(cache)
    THEN LoadIndex(cache, runbooks) @@ [fetches |-> 1]
    ELSE [cache |-> cache, runbooks |-> <<>>, fetches |-> 0]

(***************************************************************************)
(* handle_list_resources                                                   *)
(***************************************************************************)
Resource(slug, runbook) ==
    [uri |-> TopicUri(slug), name |-> runbook.title,
     description |-> runbook.title, mimeType |-> "text/plain"]

ListResources(cache, runbooks) ==
    LET loaded == EnsureLoaded(cache, runbooks)
        resources == [i \in 1..Len(loaded.cache) |->
                         Resource(loaded.cache[i].key, loaded.cache[i].value)]
    IN  Done(loaded.cache, "ok", FALSE, resources, loaded.fetches, loaded.runbooks,
             0, NOT_REQUESTED)

(***************************************************************************)
(* handle_read_resource                                                    *)
(***************************************************************************)
\* raise ValueError(...)
Raise(cache, outcome, message, about, index_fetches, resolved, content_fetches, extracted) ==
    Done(cache, outcome, TRUE, [error |-> message, about |-> about],
         index_fetches, resolved, content_fetches, extracted)

\* an exception of an awaited scraper call leaves the handler
Propagate(cache, exception, index_fetches, resolved, content_fetches) ==
    Raise(cache, "Exception", "exception from the scraper", exception,
          index_fetches, resolved, content_fetches, NOT_REQUESTED)

\* the handler run `done`, unless the index fetch it awaits raised
AwaitIndex(cache, call, done) ==
    IF call.raised THEN Propagate(cache, call.exception, 1, <<>>, 0) ELSE done

\* f"# {runbook['title']}\n\n{runbook['content']}\n\nSource: {runbook['url']}"
FormatRunbook(runbook) ==
    [heading |-> runbook.title, body |-> runbook.content, source |-> runbook.url]

\* a read that caches a failed content fetch as empty content
ReadCachedNegative(cache, slug, content_response, index_fetches, resolved) ==
    LET runbook == Get(cache, slug)
    IN  IF "content" \notin DOMAIN runbook
        THEN LET content_data == FetchRunbookContent(runbook.url, content_response)
                 merged == IF content_data # NONE THEN content_data @@ runbook
                           ELSE [content |-> EMPTY_TEXT] @@ runbook
             IN  IF content_data # NONE
                 THEN Done(DictSet(cache, slug, merged), "ok", FALSE,
                           FormatRunbook(merged), index_fetches, resolved, 1, content_data)
                 ELSE Raise(DictSet(cache, slug, merged), "FetchFailed",
                            "Failed to fetch runbook content",
                            slug, index_fetches, resolved, 1, content_data)
        ELSE Done(cache, "ok", FALSE, FormatRunbook(runbook), index_fetches, resolved,
                  0, NOT_REQUESTED)

\* "Fetch full content if not already cached": the handler from the lookup on
ReadCached(cache, slug, content_response, index_fetches, resolved) ==
    LET runbook == Get(cache, slug)
    IN  IF LacksContent(runbook)
        THEN LET content_data == FetchRunbookContent(runbook.url, content_response)
             IN  IF content_response \in ContentEscapes
                 THEN Propagate(cache, content_response, index_fetches, resolved, 1)
                 ELSE IF content_data # NONE
                 THEN LET merged == DictUpdate(runbook, content_data)
                      IN  Done(DictSet(cache, slug, merged), "ok", FALSE,
                               FormatRunbook(merged), index_fetches, resolved,
                               1, content_data)
                 ELSE Raise(cache, "FetchFailed", "Failed to fetch runbook content",
                            slug, index_fetches, resolved, 1, content_data)
        ELSE Done(cache, "ok", FALSE, FormatRunbook(runbook), index_fetches, resolved,
                  0, NOT_REQUESTED)

\* the handler from "Check if we have the runbook in cache" on
ReadSlug(cache, slug, runbooks, content_response) ==
    LET miss == MissingBeforeIndex(cache, slug)
        loaded == IF miss THEN LoadIndex(cache, runbooks)
                  ELSE [cache |-> cache, runbooks |-> <<>>]
        index_fetches == IF miss THEN 1 ELSE 0
    IN  IF MissingAfterIndex(loaded.cache, slug)
        THEN Raise(loaded.cache, "NotFound", "Runbook not found", slug,
                   index_fetches, loaded.runbooks, 0, NOT_REQUESTED)
        ELSE ReadCached(loaded.cache, slug, content_response, index_fetches,
                        loaded.runbooks)

\* uri.scheme != "runbook"
BadScheme(uri) == uri.scheme # "runbook"

\* a handler that does not check the authority
BadHostNever(uri) == FALSE

\* uri.host != "kubernetes"
BadHost(uri) == uri.host # "kubernetes"

ReadResource(cache, uri, runbooks, content_response) ==
    IF BadScheme(uri)
    THEN Raise(cache, "InvalidUri", "Unsupported URI scheme", uri.scheme,
               0, <<>>, 0, NOT_REQUESTED)
    ELSE IF BadHost(uri)
    THEN Raise(cache, "InvalidUri", "Invalid runbook URI - expected kubernetes host",
               uri, 0, <<>>, 0, NOT_REQUESTED)
    ELSE LET slug == LStrip(uri.path)
         IN  IF slug = <<>>
             THEN Raise(cache, "InvalidUri", "Invalid runbook URI - no slug provided",
                        uri, 0, <<>>, 0, NOT_REQUESTED)
             ELSE ReadSlug(cache, slug, runbooks, content_response)

(***************************************************************************)
(* handle_call_tool                                                        *)
(***************************************************************************)
\* text=f"Error fetching runbook '{topic}': {str(e)}"
ErrorText(topic, done) ==
    [done EXCEPT !.raised = FALSE,
                 !.result = [error_text |-> "Error fetching runbook",
                             topic |-> topic, e |-> done.result]]

\* a handler that catches every error but the invalid uri
ToolCatchButInvalidUri(topic, done) ==
    IF done.raised /\ done.outcome # "InvalidUri" THEN ErrorText(topic, done) ELSE done

\* except Exception as e  (fetch-runbook): the error becomes the tool's text
ToolCatch(topic, done) ==
    IF done.raised THEN ErrorText(topic, done) ELSE done

\* name == "fetch-runbook"
FetchRunbookTool(cache, arguments, runbooks, content_response) ==
    IF "topic" \notin DOMAIN arguments
    THEN Raise(cache, "ArgumentRequired", "Topic is required", "topic",
               0, <<>>, 0, NOT_REQUESTED)
    ELSE LET topic == arguments.topic
             read == ReadResource(cache, TopicUri(topic), runbooks, content_response)
         IN  ToolCatch(topic, read)

\* a match that does not lower the title
MatchesCaseSensitive(query, slug, runbook) ==
    StrIn(query, runbook.title) \/ StrIn(query, Lower(slug))

\* query in runbook['title'].lower() or query in slug.lower()
Matches(query, slug, runbook) ==
    StrIn(query, Lower(runbook.title)) \/ StrIn(query, Lower(slug))

\* the loop that builds matching_runbooks / topics: one line per kept item
RECURSIVE Lines(_, _)
Lines(cache, query) ==
    IF cache = <<>> THEN <<>>
    ELSE (IF Matches(query, Head(cache).key, Head(cache).value)
          THEN <<[title |-> Head(cache).value.title, slug |-> Head(cache).key]>>
          ELSE <<>>) \o Lines(Tail(cache), query)

\* name == "search-runbooks"
SearchRunbooksTool(cache, arguments, runbooks) ==
    IF "query" \notin DOMAIN arguments
    THEN Raise(cache, "ArgumentRequired", "Query is required", "query",
               0, <<>>, 0, NOT_REQUESTED)
    ELSE LET query == Lower(arguments.query)
             loaded == EnsureLoaded(cache, runbooks)
             matching_runbooks == Lines(loaded.cache, query)
         IN  Done(loaded.cache, "ok", FALSE,
                  [found |-> Len(matching_runbooks), query |-> query,
                   lines |-> matching_runbooks],
                  loaded.fetches, loaded.runbooks, 0, NOT_REQUESTED)

\* name == "list-topics"
ListTopicsTool(cache, runbooks) ==
    LET loaded == EnsureLoaded(cache, runbooks)
        topics == [i \in 1..Len(loaded.cache) |->
                      [title |-> loaded.cache[i].value.title, slug |-> loaded.cache[i].key]]
    IN  Done(loaded.cache, "ok", FALSE, [total |-> Len(topics), lines |-> topics],
             loaded.fetches, loaded.runbooks, 0, NOT_REQUESTED)

(***************************************************************************)
(* The state machine: one request at a time, each handler run to its end   *)
(***************************************************************************)
\* the handlers the event loop can have in flight, and what each is doing
Handlers == 1..MaxInFlight
IDLE == [pc |-> "idle"]

\* names of the dict objects the resolver makes; FREE where there is none
Refs == 1..(Cardinality(Slugs) + MaxInFlight)
FREE == [free |-> TRUE]

NoRequest ==
    [op |-> "start", arguments |-> NO_ARGUMENTS, outcome |-> "ok", raised |-> FALSE,
     result |-> NOT_REQUESTED, index_fetches |-> 0, resolved |-> <<>>,
     content_fetches |-> 0, extracted |-> NOT_REQUESTED]

\* the slug a read request names: the uri path of a resource read, the topic
\* of a fetch-runbook call
RequestSlug(request) ==
    IF request.op = "read_resource" THEN LStrip(request.arguments.uri.path)
    ELSE request.arguments.topic

IsRead(request) ==
    \/ request.op = "read_resource"
    \/ request.op = "fetch-runbook" /\ "topic" \in DOMAIN request.arguments

\* a request that returned a runbook's text
IsGoodRead(request) == IsRead(request) /\ request.outcome = "ok"

NO_READ == [read |-> FALSE]

\* history: what the previous request returned, when it was a read that succeeded
Reply(request) ==
    IF IsGoodRead(request)
    THEN [read |-> TRUE, slug |-> RequestSlug(request), text |-> request.result]
    ELSE NO_READ

Init ==
    /\ runbooks_cache = <<>>
    /\ last = NoRequest
    /\ prev = Reply(NoRequest)
    /\ argument = NOT_REQUESTED
    /\ returned = NOT_REQUESTED
    /\ tasks = [h \in Handlers |-> IDLE]
    /\ heap = [r \in Refs |-> FREE]

\* the handler's effect on the cache, and the record of the request
Finish(op, arguments, done) ==
    /\ runbooks_cache' = done.cache
    /\ last' = [op |-> op, arguments |-> arguments, outcome |-> done.outcome,
                raised |-> done.raised, result |-> done.result,
                index_fetches |-> done.index_fetches, resolved |-> done.resolved,
                content_fetches |-> done.content_fetches,
                extracted |-> done.extracted]
    /\ prev' = Reply(last)
    /\ UNCHANGED <<argument, returned, tasks, heap>>

\* what a handler's fetches can give: those of the fetches it makes
IndexFetch(makes_fetch) == IF makes_fetch THEN IndexCalls ELSE {Returned(<<>>)}
ContentFetch(makes_fetch) == IF makes_fetch THEN ContentResponses ELSE {NOT_REQUESTED}

HandleListResources ==
    \E call \in IndexFetch(ListResources(runbooks_cache, <<>>).index_fetches > 0) :
        Finish("list_resources", NO_ARGUMENTS,
               AwaitIndex(runbooks_cache, call, ListResources(runbooks_cache, call.value)))

HandleReadResource ==
    \E uri \in Uris :
      \E call \in IndexFetch(ReadResource(runbooks_cache, uri, <<>>, FETCH_ERROR).index_fetches > 0) :
        \E cr \in ContentFetch(ReadResource(runbooks_cache, uri, call.value, FETCH_ERROR).content_fetches > 0
                               /\ ~call.raised) :
            Finish("read_resource", [uri |-> uri],
                   AwaitIndex(runbooks_cache, call,
                              ReadResource(runbooks_cache, uri, call.value, cr)))

CallFetchRunbook ==
    \E arguments \in {NO_ARGUMENTS} \cup {[topic |-> t] : t \in Topics} :
      \E call \in IndexFetch(FetchRunbookTool(runbooks_cache, arguments, <<>>, FETCH_ERROR).index_fetches > 0) :
        \E cr \in ContentFetch(FetchRunbookTool(runbooks_cache, arguments, call.value, FETCH_ERROR).content_fetches > 0
                               /\ ~call.raised) :
            Finish("fetch-runbook", arguments,
                   IF call.raised
                   THEN ToolCatch(arguments.topic,
                                  Propagate(runbooks_cache, call.exception, 1, <<>>, 0))
                   ELSE FetchRunbookTool(runbooks_cache, arguments, call.value, cr))

CallSearchRunbooks ==
    \E arguments \in {NO_ARGUMENTS} \cup {[query |-> q] : q \in Queries} :
      \E call \in IndexFetch(SearchRunbooksTool(runbooks_cache, arguments, <<>>).index_fetches > 0) :
            Finish("search-runbooks", arguments,
                   AwaitIndex(runbooks_cache, call,
                              SearchRunbooksTool(runbooks_cache, arguments, call.value)))

CallListTopics ==
    \E call \in IndexFetch(ListTopicsTool(runbooks_cache, <<>>).index_fetches > 0) :
        Finish("list-topics", NO_ARGUMENTS,
               AwaitIndex(runbooks_cache, call, ListTopicsTool(runbooks_cache, call.value)))

Next ==
    \/ HandleListResources
    \/ HandleReadResource
    \/ CallFetchRunbook
    \/ CallSearchRunbooks
    \/ CallListTopics

Spec == Init /\ [][Next]_vars

(***************************************************************************)
(* The scraper's methods on their own: one call of fetch_runbook_index on  *)
(* a page with one link, or one call of fetch_runbook_content on a page    *)
(***************************************************************************)
\* content_selectors
CONTENT_SELECTORS ==
    <<"main", "article", ".post-content", ".entry-content", ".content", ".post", "body">>

\* lengths of a container's normalized text, around the threshold
ContainerLens == {50, 100, 150, 250}

\* lengths of the body's text, around the description's length
BodyLens == {60, 200, 201}

\* the texts of the containers found, in selector order: up to k of them
RECURSIVE ContainerLists(_)
ContainerLists(k) ==
    IF k = 0 THEN {<<>>}
    ELSE LET shorter == ContainerLists(k - 1)
         IN  shorter \cup
             {Append(cs, Text(CONTENT_SELECTORS[k], n)) :
                 cs \in {c \in shorter : Len(c) = k - 1}, n \in ContainerLens}

ScraperPages ==
    {Page(<<>>, cs, body) :
        cs \in ContainerLists(MaxContainers),
        body \in {NO_BODY} \cup {Text("body", n) : n \in BodyLens}}

\* link targets: the base path, a directory, a file, a doubled separator, ...
ScraperHrefs ==
    {POSTS_PATH,
     POSTS_PATH \o <<"p","o","d","/">>,
     POSTS_PATH \o <<"p","o","d">>,
     POSTS_PATH \o <<"p","o","d","/","/">>,
     POSTS_PATH \o <<"/">>,
     <<"/","a","b","o","u","t","/">>,
     <<>>}

\* link texts: pagination controls, short texts, leading digits, titles
ScraperTexts ==
    {<<>>,
     <<"P","r","e","v">>,
     <<"N","e","x","t"," ","p","a","g","e">>,
     <<"1">>,
     <<"1","0"," ","p","o","d","s">>,
     <<"2"," ","p","o","d","s">>,
     <<"0"," ","p","o","d","s">>,
     <<"4","0","4","s">>,
     ELLIPSIS,
     <<"O","K">>,
     <<"P","o","d","s">>,
     <<"P","o","d"," ","C","r","a","s","h","L","o","o","p","B","a","c","k","O","f","f">>}

ScraperLinks == {[href |-> h, text |-> t] : h \in ScraperHrefs, t \in ScraperTexts}

ScraperArguments ==
    {[link |-> l] : l \in ScraperLinks} \cup {[page |-> q] : q \in ScraperPages}

\* the url the page was asked for
PAGE_URL == UrlJoin(SITE_ORIGIN, POSTS_PATH \o <<"p","o","d","/">>)

InitScraper ==
    /\ runbooks_cache = <<>>
    /\ last = NoRequest
    /\ prev = Reply(NoRequest)
    /\ argument \in ScraperArguments
    /\ returned = NOT_REQUESTED
    /\ tasks = [h \in Handlers |-> IDLE]
    /\ heap = [r \in Refs |-> FREE]

\* fetch_runbook_index() on an index page whose only link is the argument
ResolveLink ==
    /\ "link" \in DOMAIN argument
    /\ returned = NOT_REQUESTED
    /\ returned' = [runbooks |-> FetchRunbookIndex([anchors |-> <<argument.link>>])]
    /\ UNCHANGED <<runbooks_cache, last, prev, argument, tasks, heap>>

\* fetch_runbook_content(url) on the argument's page
ExtractPage ==
    /\ "page" \in DOMAIN argument
    /\ returned = NOT_REQUESTED
    /\ returned' = [content_data |-> FetchRunbookContent(PAGE_URL, argument.page),
                    scanned |-> Scanned(argument.page.containers),
                    fallback |-> UsesFallback(argument.page)]
    /\ UNCHANGED <<runbooks_cache, last, prev, argument, tasks, heap>>

NextScraper ==
    \/ ResolveLink
    \/ ExtractPage

SpecScraper == InitScraper /\ [][NextScraper]_vars

(***************************************************************************)
(* Handlers as coroutines: a handler runs from one await of the scraper to *)
(* the next; between them other handlers may run.  The dict's values are   *)
(* names of dict objects in heap, as a handler's local `runbook` is.       *)
(***************************************************************************)
StepIndexCalls ==
    {Returned(FetchRunbookIndex(response)) :
        response \in {FETCH_ERROR, [anchors |-> <<A_pod_dir, A_node>>],
                      [anchors |-> <<A_pod_file>>]}}
    \cup {Escaped(e) : e \in IndexEscapes}

StepContentResponses == {FETCH_ERROR, PAGE_two}

StepRequests ==
    {[op |-> "list_resources", arguments |-> NO_ARGUMENTS],
     [op |-> "list-topics", arguments |-> NO_ARGUMENTS],
     [op |-> "search-runbooks", arguments |-> NO_ARGUMENTS],
     [op |-> "search-runbooks", arguments |-> [query |-> <<"P","O","D">>]],
     [op |-> "fetch-runbook", arguments |-> NO_ARGUMENTS],
     [op |-> "fetch-runbook", arguments |-> [topic |-> s_pod]]}
    \cup {[op |-> "read_resource", arguments |-> [uri |-> u]] :
              u \in {TopicUri(s_pod), TopicUri(s_nope),
                     Uri("http", "kubernetes", <<"/">> \o s_pod)}}

\* the dict as a handler reads it: each key with the object its value names
RECURSIVE Deref(_, _)
Deref(cache, objects) ==
    IF cache = <<>> THEN <<>>
    ELSE <<[key |-> Head(cache).key, value |-> objects[Head(cache).value]]>>
         \o Deref(Tail(cache), objects)

\* the objects that the local `runbook` of a suspended handler names
Held(coroutines) ==
    {coroutines[h].runbook : h \in {k \in Handlers : coroutines[k].pc = "await_content"}}

\* the objects the dict names
Cached(cache) == {cache[i].value : i \in 1..Len(cache)}

\* objects that neither the dict nor a handler names are garbage
Collect(cache, objects, coroutines) ==
    [r \in Refs |-> IF r \in Cached(cache) \cup Held(coroutines) THEN objects[r] ELSE FREE]

\* for runbook in runbooks: runbooks_cache[runbook['slug']] = runbook,
\* each runbook a dict object the resolver has just made
RECURSIVE InsertObjects(_, _, _, _)
InsertObjects(cache, objects, runbooks, held) ==
    IF runbooks = <<>> THEN [cache |-> cache, objects |-> objects]
    ELSE LET runbook == Head(runbooks)
             named == held \cup {cache[i].value :
                                    i \in {j \in 1..Len(cache) : cache[j].key # runbook.slug}}
             ref == CHOOSE r \in Refs \ named : \A q \in Refs \ named : r <= q
         IN  InsertObjects(DictSet(cache, runbook.slug, ref),
                           [objects EXCEPT ![ref] = runbook], Tail(runbooks), held)

\* a handler that has just been called
NewTask(request) ==
    [pc |-> "running", op |-> request.op, arguments |-> request.arguments,
     slug |-> IF request.op = "read_resource" THEN LStrip(request.arguments.uri.path)
              ELSE IF "topic" \in DOMAIN request.arguments THEN request.arguments.topic
              ELSE <<>>,
     runbook |-> 0, url |-> NOT_REQUESTED,
     index_fetches |-> 0, resolved |-> <<>>,
     content_fetches |-> 0, extracted |-> NOT_REQUESTED]

\* the handler stops at an await
Suspend(cache, objects, task) ==
    [cache |-> cache, objects |-> objects, task |-> task, reply |-> NOT_REQUESTED]

\* the handler returns or raises
Complete(cache, objects, task, outcome, raised, result) ==
    [cache |-> cache, objects |-> objects, task |-> IDLE,
     reply |-> [op |-> task.op, arguments |-> task.arguments, outcome |-> outcome,
                raised |-> raised, result |-> result,
                index_fetches |-> task.index_fetches, resolved |-> task.resolved,
                content_fetches |-> task.content_fetches,
                extracted |-> task.extracted]]

\* the try / except Exception of fetch-runbook around the read
Caught(task, step) ==
    IF task.op = "fetch-runbook" /\ step.reply # NOT_REQUESTED
    THEN [step EXCEPT !.reply = ToolCatch(task.arguments.topic, step.reply)]
    ELSE step

\* runbook = runbooks_cache[slug]; if 'content' not in runbook: await ...
ReadEntry(cache, objects, task) ==
    LET ref == Get(cache, task.slug)
    IN  IF LacksContent(objects[ref])
        THEN Suspend(cache, objects,
                     [task EXCEPT !.pc = "await_content", !.runbook = ref,
                                  !.url = objects[ref].url,
                                  !.content_fetches = task.content_fetches + 1])
        ELSE Complete(cache, objects, task, "ok", FALSE, FormatRunbook(objects[ref]))

\* handle_read_resource up to its first await
BeginRead(cache, objects, task, uri) ==
    LET checked == ReadResource(Deref(cache, objects), uri, <<>>, FETCH_ERROR)
    IN  IF checked.outcome = "InvalidUri"
        THEN Complete(cache, objects, task, "InvalidUri", TRUE,
                      [error |-> checked.result.error, uri |-> uri])
        ELSE IF MissingBeforeIndex(cache, task.slug)
        THEN Suspend(cache, objects,
                     [task EXCEPT !.pc = "await_index",
                                  !.index_fetches = task.index_fetches + 1])
        ELSE ReadEntry(cache, objects, task)

\* handle_read_resource from the index fetch's return on
AfterIndexRead(cache, objects, task, runbooks, held) ==
    LET loaded == InsertObjects(cache, objects, runbooks, held)
        resumed == [task EXCEPT !.resolved = runbooks]
    IN  IF MissingAfterIndex(loaded.cache, task.slug)
        THEN Complete(loaded.cache, loaded.objects, resumed, "NotFound", TRUE,
                      [error |-> "Runbook not found", slug |-> task.slug])
        ELSE ReadEntry(loaded.cache, loaded.objects, resumed)

\* a read that fetches the content a second time when the first fetch failed
AfterContentRetryOnce(cache, objects, task, content_response) ==
    LET content_data == FetchRunbookContent(task.url, content_response)
        resumed == [task EXCEPT !.extracted = content_data]
    IN  IF content_data # NONE
        THEN LET merged == DictUpdate(objects[task.runbook], content_data)
             IN  Complete(cache, [objects EXCEPT ![task.runbook] = merged], resumed,
                          "ok", FALSE, FormatRunbook(merged))
        ELSE IF task.content_fetches < 2
        THEN Suspend(cache, objects,
                     [task EXCEPT !.content_fetches = task.content_fetches + 1])
        ELSE Complete(cache, objects, resumed, "FetchFailed", TRUE,
                      [error |-> "Failed to fetch runbook content", slug |-> task.slug])

\* handle_read_resource from the content fetch's return on
AfterContent(cache, objects, task, content_response) ==
    LET content_data == FetchRunbookContent(task.url, content_response)
        resumed == [task EXCEPT !.extracted = content_data]
    IN  IF content_response \in ContentEscapes
        THEN Complete(cache, objects, task, "Exception", TRUE,
                      [error |-> "exception from the scraper", exception |-> content_response])
        ELSE IF content_data # NONE
        THEN LET merged == DictUpdate(objects[task.runbook], content_data)
             IN  Complete(cache, [objects EXCEPT ![task.runbook] = merged], resumed,
                          "ok", FALSE, FormatRunbook(merged))
        ELSE Complete(cache, objects, resumed, "FetchFailed", TRUE,
                      [error |-> "Failed to fetch runbook content", slug |-> task.slug])

\* what list_resources (its list of Resource objects), search-runbooks and
\* list-topics make of a loaded dict
Listing(view, task) ==
    CASE task.op = "list_resources" ->
             [ListResources(view, <<>>) EXCEPT !.result = [resources |-> @]]
      [] task.op = "search-runbooks" -> SearchRunbooksTool(view, task.arguments, <<>>)
      [] task.op = "list-topics" -> ListTopicsTool(view, <<>>)

\* a listing handler up to its await
BeginListing(cache, objects, task) ==
    LET done == Listing(Deref(cache, objects), task)
    IN  IF done.raised \/ ~CacheIsEmpty(cache)
        THEN Complete(cache, objects, task, done.outcome, done.raised, done.result)
        ELSE Suspend(cache, objects,
                     [task EXCEPT !.pc = "await_index",
                                  !.index_fetches = task.index_fetches + 1])

\* a listing handler from the index fetch's return on
AfterIndexListing(cache, objects, task, runbooks, held) ==
    LET loaded == InsertObjects(cache, objects, runbooks, held)
        done == Listing(Deref(loaded.cache, loaded.objects), task)
    IN  Complete(loaded.cache, loaded.objects, [task EXCEPT !.resolved = runbooks],
                 "ok", FALSE, done.result)

IsReadTask(task) == task.op \in {"read_resource", "fetch-runbook"}

\* the handler called for a request, up to its first await
BeginTask(cache, objects, task) ==
    IF task.op = "fetch-runbook"
    THEN IF "topic" \notin DOMAIN task.arguments
         THEN Complete(cache, objects, task, "ArgumentRequired", TRUE,
                       [error |-> "Topic is required", argument |-> "topic"])
         ELSE Caught(task, BeginRead(cache, objects, task, TopicUri(task.arguments.topic)))
    ELSE IF task.op = "read_resource"
    THEN BeginRead(cache, objects, task, task.arguments.uri)
    ELSE BeginListing(cache, objects, task)

\* the handler resumed with the return of its index fetch
ResumeTaskIndex(cache, objects, task, call, held) ==
    IF call.raised
    THEN Caught(task, Complete(cache, objects, task, "Exception", TRUE,
                               [error |-> "exception from the scraper",
                                exception |-> call.exception]))
    ELSE IF IsReadTask(task)
    THEN Caught(task, AfterIndexRead(cache, objects, task, call.value, held))
    ELSE AfterIndexListing(cache, objects, task, call.value, held)

\* one step of handler h: the dict, the objects, the handler and, when the
\* handler has finished, the record of its request
Step(h, step) ==
    /\ runbooks_cache' = step.cache
    /\ tasks' = [tasks EXCEPT ![h] = step.task]
    /\ heap' = Collect(step.cache, step.objects, tasks')
    /\ last' = IF step.reply = NOT_REQUESTED THEN last ELSE step.reply
    /\ UNCHANGED <<prev, argument, returned>>

\* a request arrives while fewer than in_flight handlers are in flight
Begin(h, in_flight) ==
    /\ tasks[h].pc = "idle"
    /\ \A k \in Handlers : tasks[k].pc = "idle" => h <= k
    /\ Cardinality({k \in Handlers : tasks[k].pc # "idle"}) < in_flight
    /\ \E request \in StepRequests :
           Step(h, BeginTask(runbooks_cache, heap, NewTask(request)))

\* await scraper.fetch_runbook_index() returns
ResumeIndex(h) ==
    /\ tasks[h].pc = "await_index"
    /\ \E call \in StepIndexCalls :
           Step(h, ResumeTaskIndex(runbooks_cache, heap, tasks[h], call, Held(tasks)))

\* await scraper.fetch_runbook_content(runbook['url']) returns
ResumeContent(h) ==
    /\ tasks[h].pc = "await_content"
    /\ \E content_response \in StepContentResponses :
           Step(h, Caught(tasks[h], AfterContent(runbooks_cache, heap, tasks[h],
                                                content_response)))

\* one request at a time, as the protocol adapter is documented to serve
NextInTurn ==
    \/ \E h \in Handlers : Begin(h, 1)
    \/ \E h \in Handlers : ResumeIndex(h)
    \/ \E h \in Handlers : ResumeContent(h)

\* the timeout of the http client (30 s) makes every awaited fetch return
SpecInTurn ==
    /\ Init
    /\ [][NextInTurn]_vars
    /\ \A h \in Handlers : WF_tasks(ResumeIndex(h)) /\ WF_tasks(ResumeContent(h))

\* handlers in flight together, interleaving at their awaits
NextAsync ==
    \/ \E h \in Handlers : Begin(h, MaxInFlight)
    \/ \E h \in Handlers : ResumeIndex(h)
    \/ \E h \in Handlers : ResumeContent(h)

SpecAsync == Init /\ [][NextAsync]_vars

(***************************************************************************)
(* Properties                                                              *)
(***************************************************************************)
HasContent(cache, slug) == HasKey(cache, slug) /\ "content" \in DOMAIN Get(cache, slug)

SlugsOf(runbooks) == {runbooks[i].slug : i \in 1..Len(runbooks)}

\* a read of slug that gets past the uri checks
ReadsSlug(request, slug) ==
    /\ IsRead(request)
    /\ request.op = "read_resource" =>
           request.arguments.uri.scheme = "runbook" /\ request.arguments.uri.host = "kubernetes"
    /\ slug # <<>>
    /\ RequestSlug(request) = slug

\* C1: once the cache entry of a slug has content, the entry has that same
\* content in every later state, whatever requests follow.
C1_ContentIsKept ==
    [][\A s \in Keys(runbooks_cache) :
          HasContent(runbooks_cache, s) =>
              /\ HasContent(runbooks_cache', s)
              /\ Get(runbooks_cache', s).content = Get(runbooks_cache, s).content]_vars

\* C2: a read of a slug that directly follows a successful read of the same
\* slug succeeds with the same text, without an index fetch or a content fetch.
C2_SecondReadFromCache ==
    (prev.read /\ ReadsSlug(last, prev.slug)) =>
        /\ last.outcome = "ok"
        /\ last.result = prev.text
        /\ last.index_fetches = 0
        /\ last.content_fetches = 0

C2_Witness ==
    /\ prev.read
    /\ ReadsSlug(last, prev.slug)
    /\ last.outcome = "ok"
    /\ last.result = prev.text

\* C3: first-seen wins across operations: when an index resolution returns an
\* entry whose slug is already a key of the cache, the entry in the cache
\* stays as it was.
C3_FirstSeenWins ==
    [][\A i \in 1..Len(last'.resolved) :
          HasKey(runbooks_cache, last'.resolved[i].slug) =>
              Get(runbooks_cache', last'.resolved[i].slug)
                  = Get(runbooks_cache, last'.resolved[i].slug)]_vars

\* C4: a read of a slug that is not a key of the cache makes exactly one index
\* fetch; it fails with NotFound exactly when the slug is not among the
\* resolved entries (so is still no key after they are inserted), and then
\* makes no content fetch.
C4_MissingSlugRead ==
    [][\A s \in Slugs :
          (ReadsSlug(last', s) /\ ~HasKey(runbooks_cache, s)) =>
              /\ last'.index_fetches = 1
              /\ (last'.outcome = "NotFound") <=> (s \notin SlugsOf(last'.resolved))
              /\ (last'.outcome = "NotFound") <=> ~HasKey(runbooks_cache', s)
              /\ Keys(runbooks_cache') = Keys(runbooks_cache) \cup SlugsOf(last'.resolved)
              /\ last'.outcome = "NotFound" =>
                     last'.content_fetches = 0 /\ last'.extracted = NOT_REQUESTED]_vars

C4_Witness ==
    /\ ReadsSlug(last, s_nope)
    /\ last.outcome = "NotFound"
    /\ last.index_fetches = 1
    /\ last.content_fetches = 0
    /\ runbooks_cache = <<>>

\* the entry a read of slug finds once the index is loaded
EntryBeforeContentFetch(cache, resolved, slug) ==
    IF HasKey(cache, slug) THEN Get(cache, slug)
    ELSE resolved[CHOOSE i \in 1..Len(resolved) : resolved[i].slug = slug]

\* C5: when the content extractor returns no data for the entry of a read,
\* the read fails with FetchFailed and leaves the cache as it was before the
\* content fetch: the entry has its title and url and neither content nor
\* description, and a read of the slug as the next request calls the
\* extractor again.
C5_FailedContentFetch ==
    [][\A s \in Slugs :
          /\ (ReadsSlug(last', s) /\ last'.extracted = NONE) =>
                 /\ last'.outcome = "FetchFailed"
                 /\ last'.content_fetches = 1
                 /\ last'.index_fetches = 0 => runbooks_cache' = runbooks_cache
                 /\ Keys(runbooks_cache') = Keys(runbooks_cache) \cup SlugsOf(last'.resolved)
                 /\ Get(runbooks_cache', s)
                        = EntryBeforeContentFetch(runbooks_cache, last'.resolved, s)
                 /\ DOMAIN Get(runbooks_cache', s) = {"title", "url", "slug"}
          /\ (ReadsSlug(last, s) /\ last.outcome = "FetchFailed" /\ ReadsSlug(last', s)) =>
                 last'.content_fetches = 1]_vars

C5_Witness ==
    /\ ReadsSlug(last, s_pod)
    /\ last.outcome = "FetchFailed"
    /\ last.extracted = NONE
    /\ HasKey(runbooks_cache, s_pod)
    /\ ~HasContent(runbooks_cache, s_pod)

\* the content and description of an entry, where it has them
ContentFields(runbook) ==
    [f \in DOMAIN runbook \cap {"content", "description"} |-> runbook[f]]

\* a list_entries, search or topics request (a search that names its query)
IsListing(request) ==
    \/ request.op = "list_resources"
    \/ request.op = "list-topics"
    \/ request.op = "search-runbooks" /\ "query" \in DOMAIN request.arguments

\* C6: list_entries, search and topics call the index resolver exactly when the
\* cache is empty as the request starts, once, and never the content
\* extractor; they leave every entry's content and description as they were,
\* and on a non-empty cache they fetch nothing and change nothing.
C6_ListingsOnlyLoadIndex ==
    [][IsListing(last') =>
          /\ last'.index_fetches = (IF runbooks_cache = <<>> THEN 1 ELSE 0)
          /\ last'.content_fetches = 0
          /\ last'.extracted = NOT_REQUESTED
          /\ last'.outcome = "ok"
          /\ \A s \in Keys(runbooks_cache) :
                 /\ HasKey(runbooks_cache', s)
                 /\ ContentFields(Get(runbooks_cache', s))
                        = ContentFields(Get(runbooks_cache, s))
          /\ runbooks_cache # <<>> => runbooks_cache' = runbooks_cache]_vars

C6_Witness ==
    /\ last.op = "search-runbooks"
    /\ "query" \in DOMAIN last.arguments
    /\ last.index_fetches = 0
    /\ last.content_fetches = 0
    /\ \E s \in Keys(runbooks_cache) : HasContent(runbooks_cache, s)
    /\ \E s \in Keys(runbooks_cache) : ~HasContent(runbooks_cache, s)

\* C7: a resource read whose uri has another scheme than runbook, or another
\* authority than kubernetes, fails with an invalid-uri error, fetches
\* neither the index nor content, and leaves the cache unchanged.
C7_InvalidUriRejected ==
    [][(/\ last'.op = "read_resource"
        /\ \/ last'.arguments.uri.scheme # "runbook"
           \/ last'.arguments.uri.host # "kubernetes") =>
          /\ last'.outcome = "InvalidUri"
          /\ last'.raised
          /\ last'.index_fetches = 0
          /\ last'.content_fetches = 0
          /\ runbooks_cache' = runbooks_cache]_vars

C7_Witness ==
    /\ last.op = "read_resource"
    /\ last.arguments.uri.scheme = "runbook"
    /\ last.arguments.uri.host = "linux"
    /\ last.outcome = "InvalidUri"
    /\ last.index_fetches = 0
    /\ ~HasKey(runbooks_cache, LStrip(last.arguments.uri.path))

\* C8: once a slug is a key of the cache with some url, it stays a key with
\* that url in every later state.
C8_UrlIsKept ==
    [][\A s \in Keys(runbooks_cache) :
          /\ HasKey(runbooks_cache', s)
          /\ Get(runbooks_cache', s).url = Get(runbooks_cache, s).url]_vars

\* the upper-case form of a letter
UpperChar(c) ==
    CASE c = "p" -> "P"
      [] c = "o" -> "O"
      [] c = "d" -> "D"
      [] c = "s" -> "S"
      [] c = "n" -> "N"
      [] c = "e" -> "E"
      [] c = "u" -> "U"
      [] c = "r" -> "R"
      [] OTHER -> c

\* s contains q, letters compared without regard to case
ContainsIgnoringCase(s, q) ==
    \E i \in 0..(Len(s) - Len(q)) :
        \A j \in 1..Len(q) : UpperChar(s[i + j]) = UpperChar(q[j])

\* the cache entries whose title or slug contains q, as the lines name them
EntriesMatching(cache, q) ==
    {[title |-> cache[i].value.title, slug |-> cache[i].key] :
        i \in {k \in 1..Len(cache) :
                  \/ ContainsIgnoringCase(cache[k].value.title, q)
                  \/ ContainsIgnoringCase(cache[k].key, q)}}

\* the cache without the content and description of its entries
WithoutContent(cache) ==
    [i \in 1..Len(cache) |->
        [key |-> cache[i].key,
         value |-> [f \in DOMAIN cache[i].value \ {"content", "description"} |->
                       cache[i].value[f]]]]

SeqRange(q) == {q[i] : i \in 1..Len(q)}

\* C9: a search returns exactly the cache entries whose title or slug contains
\* the query as a case-insensitive substring, each once, and the same entries
\* on the cache without its content fields.
C9_SearchMatchesTitleOrSlug ==
    /\ (last.op = "search-runbooks" /\ "query" \in DOMAIN last.arguments) =>
           /\ SeqRange(last.result.lines) = EntriesMatching(runbooks_cache, last.arguments.query)
           /\ last.result.found = Cardinality(EntriesMatching(runbooks_cache, last.arguments.query))
           /\ last.result.found = Len(last.result.lines)
    /\ \A q \in Queries :
           LET done == SearchRunbooksTool(runbooks_cache, [query |-> q], <<>>)
               bare == SearchRunbooksTool(WithoutContent(runbooks_cache), [query |-> q], <<>>)
           IN  /\ SeqRange(done.result.lines) = EntriesMatching(runbooks_cache, q)
               /\ bare.result = done.result

C9_Witness ==
    /\ last.op = "search-runbooks"
    /\ last.arguments = [query |-> <<"P","O","D">>]
    /\ last.result.found = 1
    /\ last.result.lines[1].slug = s_pod
    /\ HasContent(runbooks_cache, s_pod)
    /\ Len(runbooks_cache) = 2

\* out holds one entry per slug of kept: the first link of that slug, in the
\* order of those first links
IsFirstOccurrences(out, kept) ==
    LET firsts == {i \in 1..Len(kept) : \A j \in 1..(i - 1) : kept[j].slug # kept[i].slug}
    IN  /\ Len(out) = Cardinality(firsts)
        /\ \A k \in 1..Len(out) :
               \E i \in firsts :
                   /\ out[k] = kept[i]
                   /\ Cardinality({j \in firsts : j < i}) = k - 1

\* on every index page, the resolver returns the first occurrences of the kept links
ResolverKeepsFirst ==
    \A response \in IndexResponses \ FetchErrors :
        IsFirstOccurrences(FetchRunbookIndex(response), ScanLinks(response.anchors))

\* C10: index resolution returns one entry per distinct slug of the kept
\* links, the first link of each, in the order of first occurrence; a
\* list_entries or topics request on an empty cache returns the resolved
\* entries in that order, each slug once.
C10_DedupKeepsFirstInOrder ==
    /\ ResolverKeepsFirst
    /\ \A i, j \in 1..Len(last.resolved) :
           last.resolved[i].slug = last.resolved[j].slug => i = j
    /\ (last.op = "list_resources" /\ last.index_fetches = 1) =>
           last.result = [i \in 1..Len(last.resolved) |->
                             Resource(last.resolved[i].slug, last.resolved[i])]
    /\ (last.op = "list-topics" /\ last.index_fetches = 1) =>
           last.result.lines = [i \in 1..Len(last.resolved) |->
                                   [title |-> last.resolved[i].title,
                                    slug |-> last.resolved[i].slug]]

\* a list on an empty cache whose index page named the pod runbook twice,
\* after the node runbook
C10_Witness ==
    /\ last.op = "list_resources"
    /\ last.index_fetches = 1
    /\ Len(last.result) = 2
    /\ last.result[1].uri = TopicUri(s_node)
    /\ last.result[2].name = A_pod_file.text
    /\ \E response \in IndexResponses \ FetchErrors :
           /\ FetchRunbookIndex(response) = last.resolved
           /\ Len(ScanLinks(response.anchors)) > Len(last.resolved)

\* the cache as the index insertion of a request left it
CacheAfterIndex(cache, request) ==
    IF request.index_fetches = 1 /\ request.resolved # <<>>
    THEN InsertAll(cache, request.resolved)
    ELSE cache

\* C11: neither scraper method raises to its caller: for a transport
\* failure, a non-success status and a parse failure alike the index resolver
\* returns the empty list and the content extractor returns None, no request
\* ends with an exception of the scraper, and the failed call leaves the cache
\* as it was (after a failed content fetch: as the index insertion left it).
C11_ScraperNeverRaises ==
    [][/\ \A error \in FetchErrors :
              /\ FetchRunbookIndex(error) = <<>>
              /\ \A s \in Slugs : FetchRunbookContent(UrlJoin(SITE_ORIGIN, POSTS_PATH \o s), error) = NONE
              /\ Returned(<<>>) \in IndexCalls
       /\ \A call \in IndexCalls : ~call.raised
       /\ last'.outcome # "Exception"
       /\ (last'.index_fetches = 1 /\ last'.resolved = <<>>) =>
              runbooks_cache' = runbooks_cache
       /\ (last'.content_fetches = 1 /\ last'.extracted = NONE) =>
              runbooks_cache' = CacheAfterIndex(runbooks_cache, last')]_vars

C11_Witness ==
    /\ last.op = "fetch-runbook"
    /\ last.index_fetches = 1
    /\ last.resolved # <<>>
    /\ last.content_fetches = 1
    /\ last.extracted = NONE
    /\ runbooks_cache # <<>>
    /\ \A s \in Slugs : ~HasContent(runbooks_cache, s)

\* the text of a runbook, or the text of an error about the topic
IsRunbookText(result) == DOMAIN result = {"heading", "body", "source"}
IsErrorText(result, topic) ==
    /\ DOMAIN result = {"error_text", "topic", "e"}
    /\ result.topic = topic

\* C12: a fetch-runbook call that supplies a topic never raises: it returns
\* the runbook's text, or for NotFound, FetchFailed and an invalid or empty
\* slug an error text about the topic; only a call without a topic raises.
C12_FetchRunbookToolNeverRaises ==
    last.op = "fetch-runbook" =>
        IF "topic" \in DOMAIN last.arguments
        THEN /\ ~last.raised
             /\ last.outcome \in {"ok", "NotFound", "FetchFailed", "InvalidUri"}
             /\ IF last.outcome = "ok"
                THEN IsRunbookText(last.result)
                ELSE IsErrorText(last.result, last.arguments.topic)
        ELSE last.raised /\ last.outcome = "ArgumentRequired"

C12_Witness ==
    /\ last.op = "fetch-runbook"
    /\ "topic" \in DOMAIN last.arguments
    /\ last.arguments.topic = <<>>
    /\ last.outcome = "InvalidUri"
    /\ ~last.raised
    /\ IsErrorText(last.result, <<>>)

\* C13: every cache entry is well formed: it is stored under its own slug,
\* has a url and a non-empty title (the literal "Untitled Runbook" when the
\* page gave no title), and has a description exactly when it has content.
C13_EntriesWellFormed ==
    /\ \A i \in 1..Len(runbooks_cache) :
           LET runbook == runbooks_cache[i].value
           IN  /\ {"slug", "url", "title"} \subseteq DOMAIN runbook
               /\ runbook.slug = runbooks_cache[i].key
               /\ runbook.title # <<>>
               /\ "description" \in DOMAIN runbook <=> "content" \in DOMAIN runbook
    /\ \A page \in Pages :
           page.title = <<>> =>
               FetchRunbookContent(UrlJoin(SITE_ORIGIN, POSTS_PATH \o s_pod), page).title
                   = <<"U","n","t","i","t","l","e","d"," ","R","u","n","b","o","o","k">>

C13_Witness ==
    /\ HasContent(runbooks_cache, s_pod)
    /\ Get(runbooks_cache, s_pod).title = UNTITLED
    /\ "description" \in DOMAIN Get(runbooks_cache, s_pod)
    /\ HasKey(runbooks_cache, s_node)
    /\ ~HasContent(runbooks_cache, s_node)
    /\ "description" \notin DOMAIN Get(runbooks_cache, s_node)

\* the entries of a cache other than the one of slug, in order
OtherEntries(cache, slug) ==
    SelectSeq(cache, LAMBDA entry : entry.key # slug)

\* C14: a successful first read of a slug the cache already holds adds content
\* and description only: the entry's slug, title and url are after the read
\* what they were before it, every other entry is unchanged, and so search
\* and topics list the same items before and after the read.
C14_ReadAddsContentOnly ==
    [][\A s \in Slugs :
           (/\ ReadsSlug(last', s)
            /\ last'.outcome = "ok"
            /\ HasKey(runbooks_cache, s)
            /\ ~HasContent(runbooks_cache, s)) =>
               /\ HasContent(runbooks_cache', s)
               /\ Get(runbooks_cache', s).slug = Get(runbooks_cache, s).slug
               /\ Get(runbooks_cache', s).title = Get(runbooks_cache, s).title
               /\ Get(runbooks_cache', s).url = Get(runbooks_cache, s).url
               /\ OtherEntries(runbooks_cache', s) = OtherEntries(runbooks_cache, s)
               /\ \A q \in Queries : Lines(runbooks_cache', q) = Lines(runbooks_cache, q)]_vars

\* the link of a finished call of the index resolver on a one-link page
ResolvedLink == "link" \in DOMAIN argument /\ returned # NOT_REQUESTED
IsKept == returned.runbooks # <<>>

Digits == {"0", "1", "2", "3", "4", "5", "6", "7", "8", "9"}

\* the target holds the base path and is not the base path
TargetInCatalog(href) ==
    /\ \E i \in 1..Len(href) :
           i + Len(POSTS_PATH) - 1 <= Len(href)
           /\ SubSeq(href, i, i + Len(POSTS_PATH) - 1) = POSTS_PATH
    /\ href # POSTS_PATH

\* the text is longer than 3 characters, no Prev/Next control, no ellipsis
TextIsTitle(text) ==
    /\ Len(text) > 3
    /\ SubSeq(text, 1, 4) \notin {<<"P","r","e","v">>, <<"N","e","x","t">>}
    /\ text # ELLIPSIS

\* the filter example: link texts to a runbook's page, and whether kept
FilterExample ==
    \A text \in {<<"P","r","e","v">>, <<"1">>, ELLIPSIS, <<"O","K">>,
                 <<"P","o","d"," ","C","r","a","s","h","L","o","o","p","B","a","c","k","O","f","f">>} :
        (FetchRunbookIndex([anchors |-> <<[href |-> POSTS_PATH \o <<"p","o","d","/">>, text |-> text]>>]) # <<>>)
            <=> text[1] = "P" /\ Len(text) = 20

\* C15: the index resolver keeps a link exactly when its target holds the
\* catalog's base path and is not the base path, and its text is non-empty,
\* longer than 3 characters, starts with neither "Prev" nor "Next" nor any
\* digit 0-9, and is not the ellipsis.
C15_KeepsNoLeadingDigit ==
    /\ FilterExample
    /\ ResolvedLink =>
           (IsKept <=> /\ TargetInCatalog(argument.link.href)
                       /\ TextIsTitle(argument.link.text)
                       /\ argument.link.text[1] \notin Digits)

\* C15 as the code has it: as above, but of the digits only a leading "1"
\* or "2" makes the resolver drop the link.
C15_KeepsNoLeadingOneOrTwo ==
    /\ FilterExample
    /\ ResolvedLink =>
           (IsKept <=> /\ TargetInCatalog(argument.link.href)
                       /\ TextIsTitle(argument.link.text)
                       /\ argument.link.text[1] \notin {"1", "2"})

C15_Witness ==
    /\ ResolvedLink
    /\ argument.link.text = <<"4","0","4","s">>
    /\ argument.link.href = POSTS_PATH \o <<"p","o","d","/">>
    /\ IsKept
    /\ returned.runbooks[1].title = <<"4","0","4","s">>

\* the page of a finished call of the content extractor
ExtractedPage == "page" \in DOMAIN argument /\ returned # NOT_REQUESTED

\* the positions of the containers whose text exceeds 100 characters
Substantial(containers) ==
    {i \in 1..Len(containers) : containers[i].len > 100}

FirstSubstantial(containers) ==
    CHOOSE i \in Substantial(containers) : \A j \in Substantial(containers) : i <= j

\* the 50-then-150 example: the second container's text is returned
LengthGateExample ==
    LET page == Page(<<>>, <<Text("main", 50), Text("article", 150)>>, Text("body", 250))
    IN  FetchRunbookContent(PAGE_URL, page).content = Text("article", 150)

Chars(text) == text.len + (IF text.marker = "..." THEN 3 ELSE 0)

\* the truncation example: 250 characters are cut, 150 are not
TruncationExample ==
    LET long == FetchRunbookContent(PAGE_URL, Page(<<>>, <<Text("main", 250)>>, NO_BODY))
        short == FetchRunbookContent(PAGE_URL, Page(<<>>, <<Text("main", 150)>>, NO_BODY))
    IN  /\ long.description = [id |-> "main", len |-> 200, marker |-> "..."]
        /\ short.description = Text("main", 150)

\* C17: for content of n characters the description is the first 200
\* characters followed by "..." when n > 200 and the content itself when
\* n <= 200; it is never longer than 203 characters.
C17_DescriptionTruncation ==
    /\ TruncationExample
    /\ ExtractedPage =>
           LET content == returned.content_data.content
               description == returned.content_data.description
           IN  /\ content.len > 200 =>
                      /\ description.id = content.id
                      /\ description.len = 200
                      /\ description.marker = "..."
               /\ content.len <= 200 => description = content
               /\ Chars(description) <= 203

C17_Witness ==
    /\ ExtractedPage
    /\ returned.content_data.content = Text("body", 201)
    /\ returned.content_data.description = [id |-> "body", len |-> 200, marker |-> "..."]
    /\ Chars(returned.content_data.description) = 203

\* the last of the non-empty pieces between the separators of a target
LastNonEmptySegment(href) ==
    LET segments == SelectSeq(Split(href), LAMBDA piece : piece # <<>>)
    IN  IF segments = <<>> THEN <<>> ELSE segments[Len(segments)]

\* C18: for every kept link the derived slug is the last non-empty path
\* segment of the link's target, so every derived slug is a non-empty string.
C18_SlugIsLastNonEmptySegment ==
    (ResolvedLink /\ IsKept) =>
        /\ returned.runbooks[1].slug = LastNonEmptySegment(argument.link.href)
        /\ returned.runbooks[1].slug # <<>>

\* a request made no more than one fetch of either kind
AtMostOnce(request) == request.index_fetches <= 1 /\ request.content_fetches <= 1

\* the result of a listing request names no runbook
IsEmptyResult(request) ==
    CASE request.op = "list_resources" -> request.result.resources = <<>>
      [] request.op = "search-runbooks" -> request.result.found = 0
      [] request.op = "list-topics" -> request.result.total = 0

\* a fetch that gave nothing shows in the request that made it
FailureSurfaced(request) ==
    /\ (request.index_fetches = 1 /\ request.resolved = <<>>) =>
           IF IsRead(request) THEN request.outcome = "NotFound"
           ELSE IsEmptyResult(request)
    /\ request.extracted = NONE =>
           /\ request.outcome = "FetchFailed"
           /\ "error" \in DOMAIN request.result \/ "error_text" \in DOMAIN request.result

NoRetry ==
    /\ \A h \in Handlers : tasks[h] # IDLE => AtMostOnce(tasks[h])
    /\ AtMostOnce(last)
    /\ FailureSurfaced(last)

\* C19: no request retries a fetch: a request makes at most one index fetch
\* and at most one content fetch, a fetch that failed shows in the same
\* request as an empty result or an error, and every request ends once the
\* fetches it awaits have returned.
C19_NoRetryAndTermination ==
    /\ []NoRetry
    /\ \A h \in Handlers : (tasks[h].pc # "idle") ~> (tasks[h].pc = "idle")

C19_Witness ==
    /\ \A h \in Handlers : tasks[h] = IDLE
    /\ IsRead(last)
    /\ last.index_fetches = 1
    /\ last.resolved # <<>>
    /\ last.content_fetches = 1
    /\ last.extracted = NONE
    /\ last.outcome = "FetchFailed"

\* the dict holds slug, and the object stored under it has content
Populated(cache, objects, slug) ==
    /\ \E i \in 1..Len(cache) : cache[i].key = slug
    /\ \A i \in 1..Len(cache) :
           cache[i].key = slug => "content" \in DOMAIN objects[cache[i].value]

\* a read that was suspended returns its text: the entry under its slug has
\* content
ReadLeavesContent ==
    \A h \in Handlers :
        (/\ tasks[h].pc \in {"await_index", "await_content"}
         /\ tasks[h].op \in {"read_resource", "fetch-runbook"}
         /\ tasks'[h].pc = "idle"
         /\ last'.outcome = "ok") =>
            Populated(runbooks_cache', heap', tasks[h].slug)

\* an entry that has content keeps it, whatever handler runs
ContentSurvives ==
    \A s \in Slugs :
        Populated(runbooks_cache, heap, s) => Populated(runbooks_cache', heap', s)

\* C20: with handlers in flight together that interleave at their awaits
\* only, every read that returns successfully leaves the entry under its slug
\* with content, and an entry that has content does not lose it to another
\* handler's index insertion.
C20_ReadsPopulateUnderInterleaving ==
    [][ReadLeavesContent /\ ContentSurvives]_vars

====
